---- MODULE Spec2Model ----
(***************************************************************************)
(* A model of cli.py, the command-line client of the Cloud Identity        *)
(* Groups API: one invocation of one of the seven click commands, from     *)
(* option parsing through build_service, the remote calls of the           *)
(* command's try block, and render / render_exception.                     *)
(*                                                                         *)
(* Python values are modelled as follows.  An optional value (a click      *)
(* option that may be None) is a tuple: None is << >> and a present value  *)
(* x is << x >>.  The expiry string, which the code inspects character by  *)
(* character (re.search, dateutil's parse, strftime), is a sequence of     *)
(* one-character strings; the other strings are never inspected and stay   *)
(* TLA+ strings.  A dict whose key order matters to render() is a sequence *)
(* of << key, value >> pairs.  A formatted string such as                  *)
(* "customerId/{}".format(x) is the tuple of its pieces.                   *)
(***************************************************************************)
EXTENDS Integers, Sequences, FiniteSets, TLC

VARIABLES
    files,      \* the local files that exist beside cli.py
    tzOffset,   \* the UTC offset, in seconds, of the machine's local time
    remote,     \* the groups the remote service holds
    pc,         \* position of the invocation
    cmd,        \* the click command invoked
    args,       \* its options
    cred,       \* the credentials build_service resolved
    reads,      \* the local files opened so far, in order
    net,        \* the network calls made so far, in order
    resp,       \* the value the try block carries from one call to the next
    out         \* what has been printed, in order

vars == <<files, tzOffset, remote, pc, cmd, args, cred, reads, net, resp, out>>

----------------------------------------------------------------------------
(* Optional values *)

None == << >>

Some(x) == << x >>

Val(o) == o[1]

----------------------------------------------------------------------------
(* Module constants, cli.py lines 21-36 *)

SCOPES == <<"https://www.googleapis.com/auth/cloud-identity.groups">>

API_KEY_FILE == "api_key.txt"

CLIENT_SECRET_OAUTH == "client_secret_oauth.json"

TOKEN == "token.json"

SERVICE_ACCOUNT_CREDENTIALS == "service_account_credentials.json"

DELEGATED_EMAIL == "delegated_email.txt"

FileNames ==
    {API_KEY_FILE, CLIENT_SECRET_OAUTH, TOKEN, SERVICE_ACCOUNT_CREDENTIALS,
     DELEGATED_EMAIL}

\* What the one-line files hold (after .strip()).
ApiKeyContent == "KEY123"

DelegatedEmailContent == "admin@x.com"

----------------------------------------------------------------------------
(* Bounds and input sets *)

\* Longest list of memberships the remote service returns.
MaxMembers == 2

TzOffsets == {-3600, 0, 3600}

CustomerIds == {"C123"}

GroupKeys == {"team@x.com"}

GroupNames == {"groups/g1", "groups/g2"}

MembershipNames == {"groups/g1/memberships/m1"}

MemberEmails == {"user@x.com"}

DisplayNames == {"Team"}

Descriptions == {"The team"}

PageSizes == {25}

Opt(S) == {None} \cup {Some(x) : x \in S}

----------------------------------------------------------------------------
(* Exceptions.  content is the raw response body an HttpError carries;    *)
(* the other exceptions have no such attribute.                            *)

Exc(type, msg) == [type |-> type, msg |-> msg, content |-> None]

JsonErrorBody == "{\"error\": {\"code\": 403, \"status\": \"PERMISSION_DENIED\"}}"

HtmlErrorBody == "<html><body>502 Bad Gateway</body></html>"

EmptyErrorBody == ""

\* The bodies json.loads accepts.
JsonDocuments == {JsonErrorBody}

\* What a remote call can raise: the service's HttpError with a JSON body,
\* an HttpError whose body a proxy wrote, or a transport error.
RemoteErrors ==
    {[type |-> "HttpError", msg |-> "<HttpError 403>", content |-> Some(JsonErrorBody)],
     [type |-> "HttpError", msg |-> "<HttpError 502>", content |-> Some(HtmlErrorBody)],
     [type |-> "HttpError", msg |-> "<HttpError 500>", content |-> Some(EmptyErrorBody)],
     Exc("ServerNotFoundError", "Unable to find the server")}

NotFound ==
    [type |-> "HttpError", msg |-> "<HttpError 404>", content |-> Some(JsonErrorBody)]

----------------------------------------------------------------------------
(* Expiry strings and get_expiry, cli.py lines 290-295 *)

Digits == {"0", "1", "2", "3", "4", "5", "6", "7", "8", "9"}

DigitChars == <<"0", "1", "2", "3", "4", "5", "6", "7", "8", "9">>

\* The example of the --expiry help text, cli.py line 230.
S_help ==
    <<"N", "o", "v", " ", "3", "0", " ", "2", "0", "1", "9", " ",
      "2", "3", ":", "5", "9", ":", "5", "9">>

S_naive == <<"1", "9", "7", "0", "-", "0", "1", "-", "0", "2">>

S_before1970 == <<"1", "9", "6", "9", "-", "1", "2", "-", "3", "1">>

S_aware ==
    <<"1", "9", "7", "0", "-", "0", "1", "-", "0", "2", "T", "0", "0", ":", "0", "0",
      ":", "0", "0", "+", "0", "1", ":", "0", "0">>

S_garbage == <<"s", "o", "o", "n">>

S_digits == <<"8", "6", "4", "0", "0">>

S_zero == <<"0">>

S_digitsNewline == <<"8", "6", "4", "0", "0", "\n">>

S_empty == << >>

ExpiryStrings ==
    {S_help, S_naive, S_before1970, S_aware, S_garbage, S_digits, S_zero,
     S_digitsNewline, S_empty}

AllDigits(s) == Len(s) > 0 /\ \A i \in 1..Len(s) : s[i] \in Digits

\* re.search("^[0-9]+$", s): "$" matches at the end of the string and also
\* just before a newline that ends the string.
re_search_digits(s) ==
    \/ AllDigits(s)
    \/ Len(s) > 1 /\ s[Len(s)] = "\n" /\ AllDigits(SubSeq(s, 1, Len(s) - 1))

\* A parsed datetime: wall is the calendar fields counted in seconds from
\* 1970-01-01 00:00:00, tz the UTC offset the string names (None: naive).
DateTime(wall, tz) == [wall |-> wall, tz |-> tz]

\* dateutil.parser.parse on the strings of ExpiryStrings; any other string
\* (among them a number with a sign) is no date and raises.
parse(s) ==
    CASE s = S_help -> [ok |-> TRUE, dt |-> DateTime(1575158399, None)]
      [] s = S_naive -> [ok |-> TRUE, dt |-> DateTime(86400, None)]
      [] s = S_before1970 -> [ok |-> TRUE, dt |-> DateTime(-86400, None)]
      [] s = S_aware -> [ok |-> TRUE, dt |-> DateTime(86400, Some(3600))]
      [] OTHER -> [ok |-> FALSE, e |-> Exc("ParserError", "Unknown string format")]

RECURSIVE NatToStr(_)
NatToStr(n) ==
    IF n < 10 THEN <<DigitChars[n + 1]>>
    ELSE Append(NatToStr(n \div 10), DigitChars[(n % 10) + 1])

IntToStr(n) == IF n < 0 THEN <<"-">> \o NatToStr(-n) ELSE NatToStr(n)

\* datetime.strftime("%s"): the C library's mktime of the calendar fields
\* read as local time; the datetime's own tzinfo takes no part.
strftime_s(dt) == IntToStr(dt.wall - tzOffset)

\* The instant a parsed datetime denotes (datetime.timestamp()).
Epoch(dt) == dt.wall - (IF dt.tz = None THEN tzOffset ELSE Val(dt.tz))

get_expiry(expiry) ==
    IF expiry = None
    THEN [ok |-> FALSE, e |-> Exc("TypeError", "expected string or bytes-like object")]
    ELSE IF re_search_digits(Val(expiry))
         THEN [ok |-> TRUE, v |-> Val(expiry)]
         ELSE LET p == parse(Val(expiry))
              IN IF p.ok THEN [ok |-> TRUE, v |-> strftime_s(p.dt)]
                 ELSE [ok |-> FALSE, e |-> p.e]

----------------------------------------------------------------------------
(* render and render_exception, cli.py lines 298-317 *)

Text(s) == [kind |-> "text", v |-> s]

\* tabulate(output, headers="firstrow"): the keys of the first dict are the
\* header, the values of every dict are a row.
Table(arg) ==
    [kind |-> "table",
     header |-> [i \in 1..Len(arg[1]) |-> arg[1][i][1]],
     rows |-> [r \in 1..Len(arg) |-> [i \in 1..Len(arg[r]) |-> arg[r][i][2]]]]

\* print(e), then the JSON dump of e.content when e has one.  json.loads
\* raises on a body that is no JSON document, and nothing catches it.
render_exception(o, e) ==
    LET printed == Append(o, Text(e.msg))
    IN IF e.content = None
       THEN [out |-> printed, pc |-> "done"]
       ELSE IF Val(e.content) \in JsonDocuments
            THEN [out |-> Append(printed, [kind |-> "json", v |-> Val(e.content)]),
                  pc |-> "done"]
            ELSE [out |-> printed, pc |-> "crash"]

\* render of a list of dicts: arg[0] raises IndexError on an empty list.
render(o, arg) ==
    IF Len(arg) = 0
    THEN [raised |-> TRUE, e |-> Exc("IndexError", "list index out of range")]
    ELSE [raised |-> FALSE, out |-> Append(o, Table(arg))]

\* "except Exception as e: render(e)"
Except(e) ==
    LET r == render_exception(out, e)
    IN out' = r.out /\ pc' = r.pc

\* "render(x)" as the last statement of a try block
TryRender(arg) ==
    LET r == render(out, arg)
    IN IF r.raised THEN Except(r.e) ELSE out' = r.out /\ pc' = "done"

----------------------------------------------------------------------------
(* The remote service *)

NoBody == [none |-> TRUE]

\* A network call made: the operation, its name/parent parameter, its body,
\* what the code appended to request.uri, and what came back.
Call(op, name, body, uri, r) ==
    [op |-> op, name |-> name, body |-> body, uri |-> uri, ok |-> r.ok, result |-> r]

Failure(e) == [ok |-> FALSE, e |-> e]

Failures == {Failure(e) : e \in RemoteErrors}

\* A group before the invocation starts.
ExistingGroup ==
    [name |-> "groups/g1", parent |-> <<"customerId/", "C123">>,
     groupKey |-> [id |-> "team@x.com"], displayName |-> Some("Team"),
     description |-> None]

\* The Group resource as the dict groups().get() returns.
GroupResource(g) ==
    << <<"name", g.name>>, <<"groupKey", g.groupKey>>, <<"parent", g.parent>>,
       <<"displayName", g.displayName>>, <<"description", g.description>> >>

RECURSIVE SetToSeq(_)
SetToSeq(S) ==
    IF S = {} THEN << >>
    ELSE LET x == CHOOSE y \in S : TRUE IN <<x>> \o SetToSeq(S \ {x})

\* groups().create(body).execute(): a group with a fresh name is stored and
\* the operation returned, with the name under response when it is done.
\* A key already taken, like any other failure, is an error.
CreateGroupResults(body) ==
    IF \E g \in remote : g.groupKey = body.groupKey
    THEN Failures
    ELSE UNION {{[ok |-> TRUE, name |-> nm,
                  remote |-> remote \cup {[name |-> n, parent |-> body.parent,
                                           groupKey |-> body.groupKey,
                                           displayName |-> body.displayName,
                                           description |-> body.description]}] :
                    nm \in {Some(n), None}} :
                  n \in GroupNames \ {g.name : g \in remote}} \cup Failures

GetGroupResults(name) ==
    {[ok |-> TRUE, v |-> GroupResource(g)] : g \in {h \in remote : h.name = name}}
        \cup (IF \E g \in remote : g.name = name THEN {} ELSE {Failure(NotFound)})
        \cup Failures

\* groups().lookup() with groupKey.id: the name of the group with that key.
LookupGroupResults(key) ==
    {[ok |-> TRUE, name |-> nm] :
        nm \in UNION {{Some(g.name), None} : g \in {h \in remote : h.groupKey.id = key}}}
        \cup (IF \E g \in remote : g.groupKey.id = key THEN {} ELSE {Failure(NotFound)})
        \cup Failures

\* groups().search(): the groups of the customer under "groups"; a response
\* with no group may leave the key out.
SearchGroupResults(customer_id) ==
    LET found == {g \in remote : g.parent = <<"customerId/", customer_id>>}
    IN {[ok |-> TRUE, groups |-> Some([i \in 1..Len(SetToSeq(found)) |->
                                          GroupResource(SetToSeq(found)[i])])]}
        \cup (IF found = {} THEN {[ok |-> TRUE, groups |-> None]} ELSE {})
        \cup Failures

\* A Membership resource; expireTime is present only when one is set.
Membership(name, expireTime) ==
    << <<"name", name>>, <<"preferredMemberKey", [id |-> "user@x.com"]>>,
       <<"roles", <<[name |-> "MEMBER"]>> >> >>
        \o (IF expireTime = None THEN << >> ELSE << <<"expireTime", Val(expireTime)>> >>)

MembershipResources ==
    {Membership(n, x) : n \in MembershipNames, x \in Opt({"2019-11-30T23:59:59Z"})}

MembershipLists == UNION {[1..n -> MembershipResources] : n \in 0..MaxMembers}

ListMembershipResults ==
    {[ok |-> TRUE, memberships |-> Some(l)] : l \in MembershipLists}
        \cup {[ok |-> TRUE, memberships |-> None]} \cup Failures

GetMembershipResults ==
    {[ok |-> TRUE, v |-> m] : m \in MembershipResources} \cup Failures

CreateMembershipResults ==
    {[ok |-> TRUE, name |-> nm] : nm \in Opt(MembershipNames)} \cup Failures

PatchMembershipResults == {[ok |-> TRUE]} \cup Failures

\* build(): the discovery document is fetched from discoveryServiceUrl.
DiscoveryResults == {[ok |-> TRUE]} \cup Failures

----------------------------------------------------------------------------
(* State *)

ArgsNone ==
    [customer_id |-> None, key |-> None, display_name |-> None, description |-> None,
     name |-> None, member |-> None, expiry |-> None, page_size |-> None]

NoCredentials == [kind |-> "none"]

Init ==
    /\ files \in SUBSET FileNames
    /\ tzOffset \in TzOffsets
    /\ remote \in {{}, {ExistingGroup}}
    /\ pc = "idle"
    /\ cmd = "none"
    /\ args = ArgsNone
    /\ cred = NoCredentials
    /\ reads = << >>
    /\ net = << >>
    /\ resp = None
    /\ out = << >>

\* click refuses an invocation that lacks a required=True option: it prints
\* a usage error and the command function is never called.
ClickUsageError ==
    /\ pc' = "usage"
    /\ out' = Append(out, Text("Error: Missing option"))

\* The command function is entered; its first statement is build_service().
Enter ==
    /\ pc' = "build_service"
    /\ out' = out

----------------------------------------------------------------------------
(* build_service, cli.py lines 39-88 *)

\* Mutant: the delegated-email file is not asked for.
UseServiceAccountIgnoringEmail == SERVICE_ACCOUNT_CREDENTIALS \in files

\* "if service account credentials are found then use them", line 51
UseServiceAccount ==
    SERVICE_ACCOUNT_CREDENTIALS \in files /\ DELEGATED_EMAIL \in files

\* exit(message): the message goes to stderr and the process ends.
Exit(message) ==
    /\ pc' = "exit"
    /\ out' = Append(out, [kind |-> "stderr", v |-> message])
    /\ UNCHANGED <<cred, reads, net>>

discovery_url ==
    <<"https://", "cloudidentity.googleapis.com", "/$discovery/rest?version=", "v1alpha1",
      "&key=", ApiKeyContent, "&labels=GOOGLE_GROUPS_API_TRUSTED_TESTERS">>

\* Mutant: a failed discovery fetch is swallowed and the command goes on.
BuildSwallowingFailure(credentials, opened) ==
    \E r \in DiscoveryResults :
        /\ cred' = credentials
        /\ reads' = reads \o opened
        /\ net' = Append(net, Call("discovery", None, NoBody, discovery_url, r))
        /\ out' = out
        /\ pc' = "try"

\* build(api_name, api_version, discoveryServiceUrl=..., credentials=...,
\* developerKey=...), lines 81-87: fetches the discovery document.  The call
\* stands outside every try block, so what it raises nothing catches.
Build(credentials, opened) ==
    \E r \in DiscoveryResults :
        /\ cred' = credentials
        /\ reads' = reads \o opened
        /\ net' = Append(net, Call("discovery", None, NoBody, discovery_url, r))
        /\ out' = out
        /\ pc' = IF r.ok THEN "try" ELSE "crash"

build_service ==
    /\ pc = "build_service"
    /\ IF API_KEY_FILE \notin files
       THEN Exit("Please create a file with your API key")
       ELSE IF UseServiceAccount
            THEN Build([kind |-> "service_account", scopes |-> SCOPES,
                        subject |-> DelegatedEmailContent],
                       <<API_KEY_FILE, SERVICE_ACCOUNT_CREDENTIALS, DELEGATED_EMAIL>>)
            ELSE IF CLIENT_SECRET_OAUTH \notin files
                 THEN Exit("Please download your Oauth client file (client_secret_oauth.json).")
                 ELSE IF TOKEN \notin files
                      THEN Exit("Please run login.py to set up authentication")
                      ELSE Build([kind |-> "oauth_token", store |-> TOKEN],
                                 <<API_KEY_FILE, TOKEN>>)
    /\ UNCHANGED <<files, tzOffset, remote, cmd, args, resp>>

----------------------------------------------------------------------------
(* groups.create, cli.py lines 90-123 *)

\* Mutant: the parent is built from the key.
groupDefParentFromKey(customer_id, key, display_name, description) ==
    [parent |-> <<"customerId/", key>>,
     groupKey |-> [id |-> key],
     description |-> description,
     displayName |-> display_name,
     labels |-> [label \in {"system/groups/discussion_forum"} |-> ""]]

groupDef(customer_id, key, display_name, description) ==
    [parent |-> <<"customerId/", customer_id>>,
     groupKey |-> [id |-> key],
     description |-> description,
     displayName |-> display_name,
     labels |-> [label \in {"system/groups/discussion_forum"} |-> ""]]

groups_create ==
    /\ pc = "idle"
    /\ \E customer_id \in Opt(CustomerIds), key \in Opt(GroupKeys),
          display_name \in Opt(DisplayNames), description \in Opt(Descriptions) :
        /\ cmd' = "groups.create"
        /\ args' = [ArgsNone EXCEPT !.customer_id = customer_id, !.key = key,
                                    !.display_name = display_name,
                                    !.description = description]
        /\ IF customer_id = None \/ key = None THEN ClickUsageError ELSE Enter
    /\ UNCHANGED <<files, tzOffset, remote, cred, reads, net, resp>>

\* lines 116-118: the create request, executed
groups_create_create ==
    /\ pc = "try" /\ cmd = "groups.create"
    /\ LET body == groupDef(Val(args.customer_id), Val(args.key), args.display_name,
                            args.description)
       IN \E r \in CreateGroupResults(body) :
            /\ net' = Append(net, Call("groups.create", None, body,
                                       <<"&initialGroupConfig=WITH_INITIAL_OWNER">>, r))
            /\ remote' = IF r.ok THEN r.remote ELSE remote
            /\ IF ~r.ok
               THEN Except(r.e) /\ resp' = resp
               ELSE IF r.name = None
                    THEN Except(Exc("KeyError", "'response'")) /\ resp' = resp
                    ELSE resp' = r.name /\ pc' = "try_get" /\ out' = out
    /\ UNCHANGED <<files, tzOffset, cmd, args, cred, reads>>

\* lines 120-121: "fetch the newly created group" and render it
groups_create_get ==
    /\ pc = "try_get" /\ cmd = "groups.create"
    /\ \E r \in GetGroupResults(Val(resp)) :
        /\ net' = Append(net, Call("groups.get", resp, NoBody, << >>, r))
        /\ IF r.ok THEN TryRender(<<r.v>>) ELSE Except(r.e)
    /\ UNCHANGED <<files, tzOffset, remote, cmd, args, cred, reads, resp>>

----------------------------------------------------------------------------
(* groups.get, cli.py lines 125-154 *)

\* Mutant: the key is looked up whenever one is given.
NeedsLookupWheneverKey(name, key) == key # None

\* line 144: "if id is passed we then we have to fetch the name"
NeedsLookup(name, key) == name = None /\ key # None

groups_get ==
    /\ pc = "idle"
    /\ \E name \in Opt(GroupNames), key \in Opt(GroupKeys \cup {"nobody@x.com"}) :
        /\ cmd' = "groups.get"
        /\ args' = [ArgsNone EXCEPT !.name = name, !.key = key]
        /\ IF name = None /\ key = None
           THEN LET r == render_exception(out, Exc("Exception",
                                               "Either --name or --key are required."))
                IN out' = r.out /\ pc' = r.pc
           ELSE Enter
    /\ UNCHANGED <<files, tzOffset, remote, cred, reads, net, resp>>

\* lines 144-149
groups_get_lookup ==
    /\ pc = "try" /\ cmd = "groups.get"
    /\ NeedsLookup(args.name, args.key)
    /\ \E r \in LookupGroupResults(Val(args.key)) :
        /\ net' = Append(net, Call("groups.lookup", None, NoBody,
                                   <<"&groupKey.id=", Val(args.key)>>, r))
        /\ IF r.ok
           THEN resp' = r.name /\ pc' = "try_get" /\ out' = out
           ELSE Except(r.e) /\ resp' = resp
    /\ UNCHANGED <<files, tzOffset, remote, cmd, args, cred, reads>>

\* lines 151-152.  The generated client refuses a call whose required "name"
\* parameter is None before any request is made.
groups_get_get ==
    /\ cmd = "groups.get"
    /\ \/ pc = "try" /\ ~NeedsLookup(args.name, args.key)
       \/ pc = "try_get"
    /\ LET name == IF pc = "try" THEN args.name ELSE resp
       IN IF name = None
          THEN Except(Exc("TypeError", "Missing required parameter \"name\"")) /\ net' = net
          ELSE \E r \in GetGroupResults(Val(name)) :
                /\ net' = Append(net, Call("groups.get", name, NoBody, << >>, r))
                /\ IF r.ok THEN TryRender(<<r.v>>) ELSE Except(r.e)
    /\ UNCHANGED <<files, tzOffset, remote, cmd, args, cred, reads, resp>>

----------------------------------------------------------------------------
(* groups.list, cli.py lines 156-183 *)

\* the default of --page_size, line 158
DefaultPageSize == 10

search_query(customer_id, page_size) ==
    [query |-> <<"parent=='customerId/", customer_id,
                 "' && 'system/groups/discussion_forum' in labels">>,
     pageSize |-> page_size,
     view |-> "BASIC"]

groups_list ==
    /\ pc = "idle"
    /\ \E customer_id \in Opt(CustomerIds \cup {"C999"}), page_size \in Opt(PageSizes) :
        /\ cmd' = "groups.list"
        /\ args' = [ArgsNone EXCEPT !.customer_id = customer_id,
                                    !.page_size = IF page_size = None
                                                  THEN Some(DefaultPageSize)
                                                  ELSE page_size]
        /\ IF customer_id = None THEN ClickUsageError ELSE Enter
    /\ UNCHANGED <<files, tzOffset, remote, cred, reads, net, resp>>

\* lines 178-181
groups_list_search ==
    /\ pc = "try" /\ cmd = "groups.list"
    /\ \E r \in SearchGroupResults(Val(args.customer_id)) :
        /\ net' = Append(net, Call("groups.search", None, NoBody,
                                   <<"&", search_query(Val(args.customer_id),
                                                       Val(args.page_size))>>, r))
        /\ IF ~r.ok THEN Except(r.e)
           ELSE IF r.groups = None THEN Except(Exc("KeyError", "'groups'"))
                ELSE TryRender(Val(r.groups))
    /\ UNCHANGED <<files, tzOffset, remote, cmd, args, cred, reads, resp>>

----------------------------------------------------------------------------
(* memberships.list, cli.py lines 185-207 *)

HasKey(d, k) == \E i \in 1..Len(d) : d[i][1] = k

\* lines 203-204: "we insert it for display purposes if it's not there",
\* in the first record only.  members_response[0] raises IndexError on an
\* empty list.
InsertExpireTime(members_response) ==
    IF Len(members_response) = 0
    THEN [raised |-> TRUE, e |-> Exc("IndexError", "list index out of range")]
    ELSE [raised |-> FALSE,
          v |-> IF HasKey(members_response[1], "expireTime")
                THEN members_response
                ELSE [members_response EXCEPT
                        ![1] = Append(members_response[1], <<"expireTime", "">>)]]

memberships_list ==
    /\ pc = "idle"
    /\ \E name \in Opt(GroupNames) :
        /\ cmd' = "memberships.list"
        /\ args' = [ArgsNone EXCEPT !.name = name]
        /\ IF name = None THEN ClickUsageError ELSE Enter
    /\ UNCHANGED <<files, tzOffset, remote, cred, reads, net, resp>>

\* lines 198-205
memberships_list_list ==
    /\ pc = "try" /\ cmd = "memberships.list"
    /\ \E r \in ListMembershipResults :
        /\ net' = Append(net, Call("memberships.list", args.name, NoBody,
                                   <<"&view=FULL">>, r))
        /\ IF ~r.ok THEN Except(r.e)
           ELSE IF r.memberships = None THEN Except(Exc("KeyError", "'memberships'"))
                ELSE LET m == InsertExpireTime(Val(r.memberships))
                     IN IF m.raised THEN Except(m.e) ELSE TryRender(m.v)
    /\ UNCHANGED <<files, tzOffset, remote, cmd, args, cred, reads, resp>>

----------------------------------------------------------------------------
(* memberships.get, cli.py lines 209-225 *)

memberships_get ==
    /\ pc = "idle"
    /\ \E name \in Opt(MembershipNames) :
        /\ cmd' = "memberships.get"
        /\ args' = [ArgsNone EXCEPT !.name = name]
        /\ IF name = None THEN ClickUsageError ELSE Enter
    /\ UNCHANGED <<files, tzOffset, remote, cred, reads, net, resp>>

\* lines 221-223
memberships_get_get ==
    /\ pc = "try" /\ cmd = "memberships.get"
    /\ \E r \in GetMembershipResults :
        /\ net' = Append(net, Call("memberships.get", args.name, NoBody, << >>, r))
        /\ IF r.ok THEN TryRender(<<r.v>>) ELSE Except(r.e)
    /\ UNCHANGED <<files, tzOffset, remote, cmd, args, cred, reads, resp>>

----------------------------------------------------------------------------
(* memberships.create, cli.py lines 227-257 *)

\* "if(expiry)": None and the empty string are false.
Truthy(expiry) == expiry # None /\ Len(Val(expiry)) > 0

expiry_detail(seconds) == [expire_time |-> [seconds |-> seconds]]

\* lines 244-250; get_expiry may raise
membership_body(member, expiry) ==
    LET base == [name |-> "", preferred_member_key |-> [id |-> member],
                 roles |-> <<[name |-> "MEMBER"]>>]
    IN IF ~Truthy(expiry)
       THEN [ok |-> TRUE, v |-> base]
       ELSE LET x == get_expiry(expiry)
            IN IF x.ok
               THEN [ok |-> TRUE, v |-> ("expiry_detail" :> expiry_detail(x.v)) @@ base]
               ELSE x

memberships_create ==
    /\ pc = "idle"
    /\ \E name \in Opt(GroupNames), member \in Opt(MemberEmails),
          expiry \in Opt(ExpiryStrings) :
        /\ cmd' = "memberships.create"
        /\ args' = [ArgsNone EXCEPT !.name = name, !.member = member, !.expiry = expiry]
        /\ IF name = None \/ member = None THEN ClickUsageError ELSE Enter
    /\ UNCHANGED <<files, tzOffset, remote, cred, reads, net, resp>>

\* lines 244-252
memberships_create_create ==
    /\ pc = "try" /\ cmd = "memberships.create"
    /\ LET b == membership_body(Val(args.member), args.expiry)
       IN IF ~b.ok
          THEN Except(b.e) /\ UNCHANGED <<net, resp>>
          ELSE \E r \in CreateMembershipResults :
                /\ net' = Append(net, Call("memberships.create", args.name, b.v,
                                           << >>, r))
                /\ IF ~r.ok
                   THEN Except(r.e) /\ resp' = resp
                   ELSE IF r.name = None
                        THEN Except(Exc("KeyError", "'response'")) /\ resp' = resp
                        ELSE resp' = r.name /\ pc' = "try_get" /\ out' = out
    /\ UNCHANGED <<files, tzOffset, remote, cmd, args, cred, reads>>

\* lines 253-255
memberships_create_get ==
    /\ pc = "try_get" /\ cmd = "memberships.create"
    /\ \E r \in GetMembershipResults :
        /\ net' = Append(net, Call("memberships.get", resp, NoBody, << >>, r))
        /\ IF r.ok THEN TryRender(<<r.v>>) ELSE Except(r.e)
    /\ UNCHANGED <<files, tzOffset, remote, cmd, args, cred, reads, resp>>

----------------------------------------------------------------------------
(* memberships.expire, cli.py lines 259-288 *)

\* lines 275-279; get_expiry may raise
expire_body(expiry) ==
    LET x == get_expiry(expiry)
    IN IF x.ok THEN [ok |-> TRUE, v |-> [expiry_detail |-> expiry_detail(x.v)]] ELSE x

\* --expiry is declared required=False, line 261
memberships_expire ==
    /\ pc = "idle"
    /\ \E name \in Opt(MembershipNames), expiry \in Opt(ExpiryStrings) :
        /\ cmd' = "memberships.expire"
        /\ args' = [ArgsNone EXCEPT !.name = name, !.expiry = expiry]
        /\ IF name = None THEN ClickUsageError ELSE Enter
    /\ UNCHANGED <<files, tzOffset, remote, cred, reads, net, resp>>

\* lines 275-283
memberships_expire_patch ==
    /\ pc = "try" /\ cmd = "memberships.expire"
    /\ LET b == expire_body(args.expiry)
       IN IF ~b.ok
          THEN Except(b.e) /\ net' = net
          ELSE \E r \in PatchMembershipResults :
                /\ net' = Append(net, Call("memberships.patch", args.name, b.v,
                                           <<"&updateMask=expiryDetail.expireTime">>, r))
                /\ IF r.ok THEN pc' = "try_get" /\ out' = out ELSE Except(r.e)
    /\ UNCHANGED <<files, tzOffset, remote, cmd, args, cred, reads, resp>>

\* lines 284-286
memberships_expire_get ==
    /\ pc = "try_get" /\ cmd = "memberships.expire"
    /\ \E r \in GetMembershipResults :
        /\ net' = Append(net, Call("memberships.get", args.name, NoBody, << >>, r))
        /\ IF r.ok THEN TryRender(<<r.v>>) ELSE Except(r.e)
    /\ UNCHANGED <<files, tzOffset, remote, cmd, args, cred, reads, resp>>

----------------------------------------------------------------------------
(* main, cli.py lines 319-332: one command per process *)

Next ==
    \/ groups_create
    \/ groups_get
    \/ groups_list
    \/ memberships_list
    \/ memberships_get
    \/ memberships_create
    \/ memberships_expire
    \/ build_service
    \/ groups_create_create
    \/ groups_create_get
    \/ groups_get_lookup
    \/ groups_get_get
    \/ groups_list_search
    \/ memberships_list_list
    \/ memberships_get_get
    \/ memberships_create_create
    \/ memberships_create_get
    \/ memberships_expire_patch
    \/ memberships_expire_get

Spec == Init /\ [][Next]_vars

----------------------------------------------------------------------------
(* Properties *)

Indices(op) == {i \in 1..Len(net) : net[i].op = op}

Finished == pc \in {"done", "crash", "exit", "usage"}

\* groups.get returned at line 139, before build_service.
EarlyReturn == cmd = "groups.get" /\ args.name = None /\ args.key = None

\* build_service has run: it exited, raised or returned.
AfterBuildService ==
    pc \in {"exit", "crash", "try", "try_get", "done"} /\ ~EarlyReturn

\* The service object was built: the discovery fetch succeeded.
ServiceBuilt == Len(net) > 0 /\ net[1].op = "discovery" /\ net[1].ok

Printed(s) == \E j \in 1..Len(out) : out[j] = Text(s)

(* C1: whenever a remote call of a command (the discovery fetch of         *)
(* build_service included) raised an error, the error's string is printed  *)
(* and the command does not end in an unhandled exception, whatever raw    *)
(* response body the error carries.                                        *)
C1_RemoteErrorsAreRendered ==
    \A i \in 1..Len(net) :
        ~net[i].ok => pc # "crash" /\ Printed(net[i].result.e.msg)

(* C2: once build_service has run: it exited fatally, resolving nothing    *)
(* and building nothing, when the API key file is missing; otherwise it    *)
(* used the service-account credential delegated to the email file's       *)
(* content exactly when the service-account file and the delegated-email   *)
(* file both exist; otherwise the stored OAuth token exactly when the      *)
(* client-secret file and the token file both exist; and in every other    *)
(* combination it exited fatally.                                          *)
C2_CredentialResolution ==
    AfterBuildService =>
        LET FatalExit == pc = "exit" /\ cred = NoCredentials /\ net = << >>
        IN IF API_KEY_FILE \notin files
           THEN FatalExit
           ELSE IF SERVICE_ACCOUNT_CREDENTIALS \in files /\ DELEGATED_EMAIL \in files
                THEN /\ pc # "exit"
                     /\ cred.kind = "service_account"
                     /\ cred.subject = DelegatedEmailContent
                     /\ cred.scopes = SCOPES
                ELSE IF CLIENT_SECRET_OAUTH \in files /\ TOKEN \in files
                     THEN pc # "exit" /\ cred.kind = "oauth_token" /\ cred.store = TOKEN
                     ELSE FatalExit

\* The service-account file exists, the email file does not, and the stored
\* OAuth token was used.
C2_Witness ==
    /\ AfterBuildService
    /\ SERVICE_ACCOUNT_CREDENTIALS \in files /\ DELEGATED_EMAIL \notin files
    /\ cred.kind = "oauth_token"
    /\ pc = "try"

(* C3 as stated: build_service makes no network call, so that the first    *)
(* network call of an invocation is the command's own first remote         *)
(* operation.                                                              *)
C3_NoNetworkCallInBuildService ==
    Len(net) > 0 => net[1].op # "discovery"

(* C3, amended: build_service makes exactly one network call, the fetch of *)
(* the discovery document, which is the first network call of the          *)
(* invocation; a remote operation of the command is called only after that *)
(* fetch succeeded; before the fetch nothing was printed and only existing *)
(* local files were opened.                                                *)
C3_DiscoveryFetchIsTheFirstCall ==
    /\ pc \in {"idle", "build_service", "usage", "exit"} => net = << >>
    /\ \A i \in 1..Len(net) : (net[i].op = "discovery") <=> (i = 1)
    /\ Len(net) > 1 => net[1].ok
    /\ AfterBuildService /\ pc # "exit" => Len(net) >= 1
    /\ (pc = "try" \/ (Len(net) = 1 /\ ~net[1].ok)) =>
        out = << >> /\ remote \in {{}, {ExistingGroup}}
    /\ \A k \in 1..Len(reads) : reads[k] \in files

\* The discovery fetch, then the command's first remote operation.
C3_Witness ==
    /\ Len(net) = 2
    /\ net[1].op = "discovery" /\ net[1].ok
    /\ net[2].op = "groups.create"

(* C4: in groups.get, when only a key is supplied the one lookup call      *)
(* completes before the one get call, which uses the name the lookup       *)
(* returned; when a name is supplied no lookup is issued and the get uses  *)
(* the supplied name; after a failed lookup no get is issued.              *)
C4_LookupBeforeGet ==
    cmd = "groups.get" =>
        /\ Cardinality(Indices("groups.lookup")) <= 1
        /\ Cardinality(Indices("groups.get")) <= 1
        /\ args.name # None =>
            /\ Indices("groups.lookup") = {}
            /\ \A j \in Indices("groups.get") : net[j].name = args.name
        /\ args.name = None =>
            \A j \in Indices("groups.get") :
                \E i \in Indices("groups.lookup") :
                    /\ i < j
                    /\ net[i].ok
                    /\ net[j].name = net[i].result.name
        /\ (\E i \in Indices("groups.lookup") : ~net[i].ok) => Indices("groups.get") = {}
        /\ args.name = None /\ args.key # None /\ ServiceBuilt /\ Finished =>
            Cardinality(Indices("groups.lookup")) = 1

\* Only a key was supplied; the lookup, then the get by the name it returned.
C4_Witness ==
    /\ cmd = "groups.get" /\ args.name = None /\ args.key # None
    /\ Len(net) = 3
    /\ net[2].op = "groups.lookup" /\ net[2].ok
    /\ net[3].op = "groups.get" /\ net[3].ok
    /\ net[3].name = net[2].result.name

\* The string denotes an instant: it is all digits or a date.
Denotes(s) == AllDigits(s) \/ parse(s).ok

\* The epoch seconds, as a string, of the instant the string denotes.
EpochValue(s) == IF AllDigits(s) THEN s ELSE IntToStr(Epoch(parse(s).dt))

(* C5: memberships.expire with a name and an expiry sends one patch to     *)
(* that membership name, whose body holds only expiry_detail.expire_time.  *)
(* seconds, equal to the epoch value of the supplied expiry, under the     *)
(* update mask expiryDetail.expireTime alone; the get of the same name     *)
(* follows a successful patch only.                                        *)
C5_ExpirePatchesOnlyTheExpiry ==
    cmd = "memberships.expire" /\ args.expiry # None /\ Denotes(Val(args.expiry)) =>
        /\ Cardinality(Indices("memberships.patch")) <= 1
        /\ ServiceBuilt /\ Finished => Cardinality(Indices("memberships.patch")) = 1
        /\ \A i \in Indices("memberships.patch") :
            /\ net[i].name = args.name
            /\ net[i].body = [expiry_detail |->
                                [expire_time |->
                                    [seconds |-> EpochValue(Val(args.expiry))]]]
            /\ net[i].uri = <<"&updateMask=expiryDetail.expireTime">>
        /\ \A j \in Indices("memberships.get") :
            /\ net[j].name = args.name
            /\ \E i \in Indices("memberships.patch") : i < j /\ net[i].ok
        /\ (\E i \in Indices("memberships.patch") : ~net[i].ok) =>
            Indices("memberships.get") = {}

(* C6: get_expiry, applied to the expiry of memberships.create or          *)
(* memberships.expire: an all-digit string comes back unchanged; any other *)
(* string the date parser accepts comes back as the epoch seconds of the   *)
(* parsed date; and applying get_expiry to a result gives that result.     *)
C6_GetExpiry ==
    cmd \in {"memberships.create", "memberships.expire"} /\ args.expiry # None
    /\ ServiceBuilt /\ pc \in {"try_get", "done", "crash"} =>
        LET s == Val(args.expiry)
            x == get_expiry(args.expiry)
        IN /\ AllDigits(s) => x.ok /\ x.v = s
           /\ ~AllDigits(s) /\ parse(s).ok =>
                x.ok /\ x.v = IntToStr(Epoch(parse(s).dt))
           /\ x.ok => get_expiry(Some(x.v)) = x

(* C7: memberships.list, for every list of memberships returned: a first   *)
(* record without expireTime is given the empty string, and every row of   *)
(* the rendered table has as many cells as the header.                     *)
C7_MembershipTableIsRectangular ==
    cmd = "memberships.list" =>
        \A j \in 1..Len(out) :
            out[j].kind = "table" =>
                /\ \E c \in 1..Len(out[j].header) : out[j].header[c] = "expireTime"
                /\ \A r \in 1..Len(out[j].rows) :
                    Len(out[j].rows[r]) = Len(out[j].header)

\* The cell of the first row of a table under the given header.
Cell(table, key) ==
    table.rows[1][CHOOSE c \in 1..Len(table.header) : table.header[c] = key]

(* C8: groups.create submits one create request, whose body has the parent *)
(* customerId/<customer id>, the supplied key as groupKey.id and the       *)
(* discussion-forum label; a get is issued only after that request         *)
(* succeeded, once, by the name of the create response; the record         *)
(* rendered has the key and the customer parent supplied; after a failed   *)
(* create no get is issued.                                                *)
C8_CreateThenGet ==
    cmd = "groups.create" =>
        /\ Cardinality(Indices("groups.create")) <= 1
        /\ Cardinality(Indices("groups.get")) <= 1
        /\ \A i \in Indices("groups.create") :
            /\ net[i].body.parent = <<"customerId/", Val(args.customer_id)>>
            /\ net[i].body.groupKey = [id |-> Val(args.key)]
            /\ DOMAIN net[i].body.labels = {"system/groups/discussion_forum"}
        /\ \A j \in Indices("groups.get") :
            \E i \in Indices("groups.create") :
                i < j /\ net[i].ok /\ net[j].name = net[i].result.name
        /\ (\E i \in Indices("groups.create") : ~net[i].ok) => Indices("groups.get") = {}
        /\ (Finished /\ \E i \in Indices("groups.create") :
                            net[i].ok /\ net[i].result.name # None) =>
            Cardinality(Indices("groups.get")) = 1
        /\ \A k \in 1..Len(out) :
            out[k].kind = "table" =>
                /\ Cell(out[k], "groupKey") = [id |-> Val(args.key)]
                /\ Cell(out[k], "parent") = <<"customerId/", Val(args.customer_id)>>

\* The group was created, fetched by the returned name and rendered.
C8_Witness ==
    /\ cmd = "groups.create" /\ pc = "done"
    /\ Len(net) = 3
    /\ net[2].op = "groups.create" /\ net[2].ok
    /\ net[3].op = "groups.get" /\ net[3].ok /\ net[3].name = net[2].result.name
    /\ Len(out) = 1 /\ out[1].kind = "table"

\* An input the command cannot do without is missing.
MissingRequiredInput ==
    \/ cmd = "groups.get" /\ args.name = None /\ args.key = None
    \/ cmd = "memberships.expire" /\ args.name # None /\ args.expiry = None

(* C9: a command that lacks a required input (groups.get with neither name *)
(* nor key, memberships.expire with no expiry) prints an instruction and   *)
(* returns early: no credentials are resolved, no file is opened, no       *)
(* remote call is made and the command does not crash.                     *)
C9_MissingInputReturnsEarly ==
    MissingRequiredInput =>
        /\ pc \notin {"exit", "crash"}
        /\ cred = NoCredentials
        /\ reads = << >>
        /\ net = << >>
        /\ Finished => pc = "done" /\ Len(out) = 1 /\ out[1].kind = "text"

Carries(i) == "expiry_detail" \in DOMAIN net[i].body

(* C10: in memberships.create and memberships.expire every create or patch *)
(* request that carries an expiry carries an all-digit seconds value; when *)
(* the supplied expiry cannot be converted no create or patch is sent; and *)
(* memberships.create without an expiry sends a body with the role MEMBER  *)
(* and no expiry block.                                                    *)
C10_ExpiryIsConvertedBeforeSending ==
    cmd \in {"memberships.create", "memberships.expire"} =>
        LET sent == Indices("memberships.create") \cup Indices("memberships.patch")
        IN /\ \A i \in sent :
                Carries(i) => AllDigits(net[i].body.expiry_detail.expire_time.seconds)
           /\ args.expiry # None /\ Truthy(args.expiry) /\ ~Denotes(Val(args.expiry)) =>
                sent = {}
           /\ cmd = "memberships.create" /\ args.expiry = None =>
                \A i \in sent :
                    /\ ~Carries(i)
                    /\ net[i].body.roles = <<[name |-> "MEMBER"]>>

====
